---- MODULE Spec2Model ----
(***************************************************************************)
(* Entity / Component / Scene lifecycle core and the observation-gated     *)
(* agent (SCP-173 behaviour) of the SCP Foundation survival horror game.   *)
(*                                                                         *)
(* The Scene part is a small-step interpreter: every loop of the source    *)
(* that can call a component hook (start, update, onDestroy) is a frame on *)
(* `stack`, and while a hook frame is on top the hook's code may call the  *)
(* Scene / Entity API, exactly as the host code may when the stack is      *)
(* empty.  JavaScript for-of loops over arrays read the array by index on  *)
(* every iteration, so a frame iterates the field's current array while    *)
(* `live` is TRUE and keeps the old array once the field is reassigned.    *)
(***************************************************************************)
EXTENDS Integers, Sequences, FiniteSets, TLC

\* ------------------------------------------------------------ universe
Entities == {"e1", "e2"}
Components == {"c1", "c2", "c3", "c4"}
Tags == {"door"}
NULL == "null"

\* Total number of API calls made by host code and hook code in one run.
MaxCalls == 4

VARIABLES
  entities,          \* Scene.entities          (array of entities)
  entitiesToAdd,     \* Scene.entitiesToAdd     (array)
  entitiesToRemove,  \* Scene.entitiesToRemove  (array)
  taggedEntities,    \* Scene.taggedEntities    (Map tag -> Set of entities)
  ent,               \* per entity: components, active, tags, scene, destroyed
  comp,              \* per component: entity back-reference, enabled
  stack,             \* call stack of running loops and hooks
  calls,             \* number of API calls made so far
  startCount,        \* per component: how often start() was called
  onDestroyCount,    \* per component: how often onDestroy() was called
  destroyFired,      \* per component: onDestroy() calls made by Entity.destroy
  destroyLog,        \* per entity: destroy() calls, components attached at the first
  pass,              \* history of the running Scene.update pass
  flush              \* history of the running processPendingChanges

VARIABLES
  agentPos,          \* SCP173Behavior.entity.position, in decimetres
  playerPos,         \* player.position, in decimetres
  playerFwd,         \* player.getForwardVector()
  refs,              \* which references of the agent are set
  deadSignals,       \* calls of scene.gameState.setState('DEAD')
  threw,             \* an update ended in a TypeError
  frames,            \* agent updates so far
  frozenRun,         \* consecutive updates in which the agent was observed
  agentDt            \* the dt of the last agent update, in tenths of a second

agentVars == <<agentPos, playerPos, playerFwd, refs, deadSignals, threw, frames,
               frozenRun, agentDt>>

sceneVars == <<entities, entitiesToAdd, entitiesToRemove, taggedEntities, ent,
               comp, stack, calls, startCount, onDestroyCount, destroyFired,
               destroyLog, pass, flush>>

VARIABLES
  now,               \* the timestamp of requestAnimationFrame, in milliseconds
  tm,                \* the fields of Time
  timeRet,           \* what the last Time.update returned
  timeSum,           \* sum of the values returned since the last reset
  timeUpdates        \* Time.update calls so far

VARIABLES
  inp,               \* the fields of Input
  held,              \* the keys physically held down
  presses,           \* per key: physical presses so far
  seen,              \* per key: frames in which isKeyPressed(key) was true
  fresh,             \* keys physically pressed since the last clearFrameState
  repeats,           \* per key: auto-repeat keydown events so far
  inputEvents,       \* events and frames so far
  inputFrames        \* frames so far

VARIABLES
  pl,                \* the fields of PlayerController and its entity
  plLast,            \* what the last updateMovement computed on its way
  plFrames           \* PlayerController.update calls so far

timeVars == <<now, tm, timeRet, timeSum, timeUpdates>>
inputVars == <<inp, held, presses, seen, fresh, repeats, inputEvents,
               inputFrames>>
playerVars == <<pl, plLast, plFrames>>
hostVars == <<timeVars, inputVars, playerVars>>

\* ------------------------------------------------------------ arrays
\* Array.prototype.indexOf, 1-based; 0 stands for JavaScript's -1.
IndexOf(s, x) ==
  IF \E i \in 1..Len(s) : s[i] = x
    THEN CHOOSE i \in 1..Len(s) : s[i] = x /\ \A j \in 1..(i - 1) : s[j] # x
    ELSE 0

Includes(s, x) == \E i \in 1..Len(s) : s[i] = x

\* Array.prototype.splice(idx, 1); an index past the end removes nothing.
Splice(s, idx) ==
  IF idx \in 1..Len(s)
    THEN SubSeq(s, 1, idx - 1) \o SubSeq(s, idx + 1, Len(s))
    ELSE s

Range(s) == {s[i] : i \in 1..Len(s)}

\* ------------------------------------------------------------ tag index
addEntityToTagIndex(idx, e, t) ==
  IF t \in DOMAIN idx
    THEN [idx EXCEPT ![t] = @ \cup {e}]
    ELSE idx @@ (t :> {e})

removeEntityFromTagIndex(idx, e, t) ==
  IF t \in DOMAIN idx
    THEN LET s == idx[t] \ {e}
         IN IF s = {}
              THEN [x \in (DOMAIN idx) \ {t} |-> idx[x]]
              ELSE [idx EXCEPT ![t] = s]
    ELSE idx

findByTag(t) == IF t \in DOMAIN taggedEntities THEN taggedEntities[t] ELSE {}

\* for (const tag of entity.tags) this._addEntityToTagIndex(entity, tag)
RECURSIVE IndexTags(_, _, _)
IndexTags(idx, e, ts) ==
  IF ts = {} THEN idx
  ELSE LET t == CHOOSE x \in ts : TRUE
       IN IndexTags(addEntityToTagIndex(idx, e, t), e, ts \ {t})

\* for (const tag of entity.tags) this._removeEntityFromTagIndex(entity, tag)
RECURSIVE UnindexTags(_, _, _)
UnindexTags(idx, e, ts) ==
  IF ts = {} THEN idx
  ELSE LET t == CHOOSE x \in ts : TRUE
       IN UnindexTags(removeEntityFromTagIndex(idx, e, t), e, ts \ {t})

\* ------------------------------------------------------------ frames
Frame(kind, e, c, i, aux, idx) ==
  [kind |-> kind, e |-> e, c |-> c, i |-> i, aux |-> aux, idx |-> idx,
   live |-> TRUE, arr |-> <<>>, log |-> <<>>]

Top == stack[Len(stack)]
Pop(st) == SubSeq(st, 1, Len(st) - 1)
SetTop(st, f) == [st EXCEPT ![Len(st)] = f]

\* The array a frame iterates: the field while live, else the array it kept.
FieldOf(f) ==
  CASE f.kind = "sceneUpdate" -> entities
    [] f.kind = "clear" -> entities
    [] f.kind = "flushRemove" -> entitiesToRemove
    [] f.kind = "flushAdd" -> entitiesToAdd
    [] OTHER -> ent[f.e].components

ArrOf(f) == IF f.live THEN FieldOf(f) ELSE f.arr

\* A field is assigned a new array: the loops running over the old array keep it.
Detach(st, kinds, e, old) ==
  [k \in DOMAIN st |->
     IF st[k].live /\ st[k].kind \in kinds /\ st[k].e = e
       THEN [st[k] EXCEPT !.live = FALSE, !.arr = old]
       ELSE st[k]]

ComponentLoops == {"entityUpdate", "onAdded", "destroy"}

\* ------------------------------------------------------------ callers
InHook == stack # <<>> /\ Top.kind = "hook"
Running(kind) == stack # <<>> /\ Top.kind = kind

\* One step of the loop `kind`, which is on top of the stack.
Steps(kind) == Running(kind) /\ UNCHANGED <<agentVars, hostVars>>
Caller == IF stack = <<>> THEN "host" ELSE IF InHook THEN Top.aux ELSE "none"

\* What the code of each kind of hook is taken to call.
Allowed(who) ==
  CASE who = "host" ->
         {"addEntity", "addEntityImmediate", "removeEntity", "destroy", "clear",
          "addComponent", "removeComponent", "addTag", "removeTag",
          "processPendingChanges", "update", "entityUpdate", "setEnabled"}
    [] who = "update" ->
         {"addEntity", "addEntityImmediate", "removeEntity", "destroy", "clear",
          "addComponent", "removeComponent", "addTag", "removeTag",
          "setEnabled"}
    [] who = "start" -> {"addComponent"}
    [] who = "onDestroy" -> {"destroy", "removeEntity"}
    [] OTHER -> {}

InPass == \E k \in DOMAIN stack : stack[k].kind = "sceneUpdate"

NoPass == [on |-> FALSE, start |-> <<>>, eligible |-> <<>>, visited |-> <<>>,
           updated |-> <<>>, ops |-> {}]
NoFlush == [on |-> FALSE, both |-> {}, liveRemoved |-> {}, dropped |-> {},
            starts |-> <<>>]

\* Book-keeping of one API call `op` made by host code or by a hook.
Call(op) ==
  /\ calls < MaxCalls
  /\ op \in Allowed(Caller)
  /\ calls' = calls + 1
  /\ UNCHANGED <<agentVars, hostVars>>

\* The call is noted in the history of the running Scene.update pass.
Note(op) == pass' = IF InPass THEN [pass EXCEPT !.ops = @ \cup {op}] ELSE pass

\* A component that was never attached.
Fresh(c) == comp[c].entity = NULL /\ startCount[c] = 0 /\ onDestroyCount[c] = 0

\* ------------------------------------------------------------ initial state
\* The world after level construction: e1 was built with two components and a
\* tag and admitted with addEntityImmediate (its start hooks have run); e2 is
\* built (one component, one tag) and not yet admitted; c4 is not attached.
SceneInit ==
  /\ entities = <<"e1">>
  /\ entitiesToAdd = <<>>
  /\ entitiesToRemove = <<>>
  /\ taggedEntities = ("door" :> {"e1"})
  /\ ent = [e \in Entities |->
             [components |-> IF e = "e1" THEN <<"c1", "c2">> ELSE <<"c3">>,
              active |-> TRUE,
              tags |-> {"door"},
              scene |-> (e = "e1"),
              destroyed |-> FALSE]]
  /\ comp = [c \in Components |->
              [entity |-> CASE c \in {"c1", "c2"} -> "e1"
                            [] c = "c3" -> "e2"
                            [] OTHER -> NULL,
               enabled |-> TRUE]]
  /\ stack = <<>>
  /\ calls = 0
  /\ startCount = [c \in Components |-> IF c \in {"c1", "c2"} THEN 1 ELSE 0]
  /\ onDestroyCount = [c \in Components |-> 0]
  /\ destroyFired = [c \in Components |-> 0]
  /\ destroyLog = [e \in Entities |-> [calls |-> 0, attached |-> {}]]
  /\ pass = NoPass
  /\ flush = NoFlush

HookFrame(kind, c) == Frame("hook", NULL, c, 0, kind, 0)
LoopFrame(kind, e) == Frame(kind, e, NULL, 1, "loop", 0)

\* ------------------------------------------------------------ Scene API
\* Mutant: addEntity admits at once instead of queueing.
AddEntityNow(e) ==
  /\ Call("addEntity") /\ Note("addEntity")
  /\ entities' = Append(entities, e)
  /\ UNCHANGED <<entitiesToAdd, entitiesToRemove, taggedEntities, ent, comp,
                 stack, startCount, onDestroyCount, destroyFired, destroyLog,
                 flush>>

\* Scene.addEntity
AddEntity(e) ==
  /\ Call("addEntity") /\ Note("addEntity")
  /\ entitiesToAdd' = Append(entitiesToAdd, e)
  /\ UNCHANGED <<entities, entitiesToRemove, taggedEntities, ent, comp, stack,
                 startCount, onDestroyCount, destroyFired, destroyLog,
                 flush>>

\* Scene.addEntityImmediate; entity._onAddedToScene() runs as a frame.
AddEntityImmediate(e) ==
  /\ Call("addEntityImmediate") /\ Note("addEntityImmediate")
  /\ ent' = [ent EXCEPT ![e].scene = TRUE]
  /\ entities' = Append(entities, e)
  /\ taggedEntities' = IndexTags(taggedEntities, e, ent[e].tags)
  /\ stack' = Append(stack, LoopFrame("onAdded", e))
  /\ UNCHANGED <<entitiesToAdd, entitiesToRemove, comp, startCount,
                 onDestroyCount, destroyFired, destroyLog, flush>>

\* this.entitiesToRemove after Scene.removeEntity(e)
Enqueued(q, e) == IF Includes(q, e) THEN q ELSE Append(q, e)

\* Mutant: removeEntity takes the entity out of the live array at once.
RemoveEntityNow(e) ==
  /\ Call("removeEntity") /\ Note("removeEntity")
  /\ entities' = Splice(entities, IndexOf(entities, e))
  /\ UNCHANGED <<entitiesToAdd, entitiesToRemove, taggedEntities, ent, comp,
                 stack, startCount, onDestroyCount, destroyFired, destroyLog,
                 flush>>

\* Scene.removeEntity
RemoveEntity(e) ==
  /\ Call("removeEntity") /\ Note("removeEntity")
  /\ entitiesToRemove' = Enqueued(entitiesToRemove, e)
  /\ UNCHANGED <<entities, entitiesToAdd, taggedEntities, ent, comp, stack,
                 startCount, onDestroyCount, destroyFired, destroyLog,
                 flush>>

\* What processPendingChanges finds when it starts.
FlushStart ==
  [on |-> TRUE,
   both |-> Range(entitiesToAdd) \cap Range(entitiesToRemove),
   liveRemoved |-> Range(entities) \cap Range(entitiesToRemove),
   dropped |-> {e \in Range(entitiesToAdd) \ Range(entities) :
                  ent[e].destroyed /\ ~ent[e].scene},
   starts |-> startCount]

\* Scene.processPendingChanges, called by the host
ProcessPendingChanges ==
  /\ Call("processPendingChanges") /\ Note("processPendingChanges")
  /\ stack' = Append(stack, LoopFrame("flushRemove", NULL))
  /\ flush' = FlushStart
  /\ UNCHANGED <<entities, entitiesToAdd, entitiesToRemove, taggedEntities, ent,
                 comp, startCount, onDestroyCount, destroyFired,
                 destroyLog>>

Eligible(e) == ent[e].active /\ ~ent[e].destroyed

\* Scene.update, called by the host once per frame
SceneUpdate ==
  /\ Call("update")
  /\ stack' = Append(stack, LoopFrame("sceneUpdate", NULL))
  /\ pass' = [on |-> TRUE, start |-> entities,
              eligible |-> SelectSeq(entities, Eligible),
              visited |-> <<>>, updated |-> <<>>, ops |-> {}]
  /\ UNCHANGED <<entities, entitiesToAdd, entitiesToRemove, taggedEntities, ent,
                 comp, startCount, onDestroyCount, destroyFired,
                 destroyLog, flush>>

\* Scene.clear
Clear ==
  /\ Call("clear") /\ Note("clear")
  /\ stack' = Append(stack, LoopFrame("clear", NULL))
  /\ UNCHANGED <<entities, entitiesToAdd, entitiesToRemove, taggedEntities, ent,
                 comp, startCount, onDestroyCount, destroyFired,
                 destroyLog, flush>>

\* ------------------------------------------------------------ Entity API
\* Entity.addComponent
AddComponent(e, c) ==
  /\ Call("addComponent") /\ Note("addComponent")
  /\ Fresh(c)
  /\ comp' = [comp EXCEPT ![c].entity = e]
  /\ ent' = [ent EXCEPT ![e].components = Append(@, c)]
  /\ IF ent[e].scene
       THEN /\ startCount' = [startCount EXCEPT ![c] = @ + 1]
            /\ stack' = Append(stack, HookFrame("start", c))
       ELSE UNCHANGED <<startCount, stack>>
  /\ UNCHANGED <<entities, entitiesToAdd, entitiesToRemove, taggedEntities,
                 onDestroyCount, destroyFired, destroyLog, flush>>

\* Entity.removeComponent up to the onDestroy hook
RemoveComponent(e, c) ==
  /\ Call("removeComponent") /\ Note("removeComponent")
  /\ LET index == IndexOf(ent[e].components, c)
     IN IF index > 0
          THEN /\ onDestroyCount' = [onDestroyCount EXCEPT ![c] = @ + 1]
               /\ stack' = Append(Append(stack,
                                Frame("removeComponent", e, c, 0, "ret", index)),
                                HookFrame("onDestroy", c))
          ELSE UNCHANGED <<onDestroyCount, stack>>
  /\ UNCHANGED <<entities, entitiesToAdd, entitiesToRemove, taggedEntities, ent,
                 comp, startCount, destroyFired, destroyLog, flush>>

\* Entity.removeComponent after the onDestroy hook
StepRemoveComponent ==
  /\ Steps("removeComponent")
  /\ comp' = [comp EXCEPT ![Top.c].entity = NULL]
  /\ ent' = [ent EXCEPT ![Top.e].components = Splice(@, Top.idx)]
  /\ stack' = Pop(stack)
  /\ UNCHANGED <<entities, entitiesToAdd, entitiesToRemove, taggedEntities,
                 calls, startCount, onDestroyCount, destroyFired,
                 destroyLog, pass, flush>>

\* Entity.addTag
AddTag(e, t) ==
  /\ Call("addTag") /\ Note("addTag")
  /\ ent' = [ent EXCEPT ![e].tags = @ \cup {t}]
  /\ taggedEntities' = IF ent[e].scene
                         THEN addEntityToTagIndex(taggedEntities, e, t)
                         ELSE taggedEntities
  /\ UNCHANGED <<entities, entitiesToAdd, entitiesToRemove, comp, stack,
                 startCount, onDestroyCount, destroyFired, destroyLog,
                 flush>>

\* Entity.removeTag
RemoveTag(e, t) ==
  /\ Call("removeTag") /\ Note("removeTag")
  /\ ent' = [ent EXCEPT ![e].tags = @ \ {t}]
  /\ taggedEntities' = IF ent[e].scene
                         THEN removeEntityFromTagIndex(taggedEntities, e, t)
                         ELSE taggedEntities
  /\ UNCHANGED <<entities, entitiesToAdd, entitiesToRemove, comp, stack,
                 startCount, onDestroyCount, destroyFired, destroyLog,
                 flush>>

\* component.enabled = enabled, assigned by the host or by an update hook
SetEnabled(c, enabled) ==
  /\ Call("setEnabled") /\ Note("setEnabled")
  /\ comp' = [comp EXCEPT ![c].enabled = enabled]
  /\ UNCHANGED <<entities, entitiesToAdd, entitiesToRemove, taggedEntities, ent,
                 stack, startCount, onDestroyCount, destroyFired, destroyLog,
                 flush>>

\* Entity.update, called directly by the host
EntityUpdate(e) ==
  /\ Call("entityUpdate") /\ Note("entityUpdate")
  /\ stack' = IF ~ent[e].active \/ ent[e].destroyed
                THEN stack
                ELSE Append(stack, LoopFrame("entityUpdate", e))
  /\ UNCHANGED <<entities, entitiesToAdd, entitiesToRemove, taggedEntities, ent,
                 comp, startCount, onDestroyCount, destroyFired,
                 destroyLog, flush>>

\* Entity.destroy up to its loop (the guard and the flag), on entity table en
\* and stack st: the entity table, the stack and the history after it.
DestroyedFlag(en, e) ==
  IF en[e].destroyed THEN en ELSE [en EXCEPT ![e].destroyed = TRUE]

\* Mutant: destroy() without its guard.
DestroyLoopUnguarded(en, st, e) == Append(st, LoopFrame("destroy", e))

DestroyLoop(en, st, e) ==
  IF en[e].destroyed THEN st ELSE Append(st, LoopFrame("destroy", e))

DestroyNoted(en, e) ==
  [destroyLog EXCEPT
     ![e].calls = @ + 1,
     ![e].attached = IF en[e].destroyed THEN @ ELSE Range(en[e].components)]

\* Entity.destroy, called by the host or a hook
Destroy(e) ==
  /\ Call("destroy") /\ Note("destroy")
  /\ ent' = DestroyedFlag(ent, e)
  /\ stack' = DestroyLoop(ent, stack, e)
  /\ destroyLog' = DestroyNoted(ent, e)
  /\ UNCHANGED <<entities, entitiesToAdd, entitiesToRemove, taggedEntities,
                 comp, startCount, onDestroyCount, destroyFired, flush>>

\* ------------------------------------------------------------ running loops
\* A hook returns to the loop that called it.
HookReturn ==
  /\ InHook
  /\ UNCHANGED <<agentVars, hostVars>>
  /\ stack' = Pop(stack)
  /\ UNCHANGED <<entities, entitiesToAdd, entitiesToRemove, taggedEntities, ent,
                 comp, calls, startCount, onDestroyCount, destroyFired,
                 destroyLog, pass, flush>>

\* Entity.destroy: the loop over the components and the lines after it
StepDestroy ==
  /\ Steps("destroy")
  /\ LET f == Top
         arr == ArrOf(f)
     IN CASE f.aux = "loop" /\ f.i <= Len(arr) ->
               \* component.onDestroy()
               /\ onDestroyCount' = [onDestroyCount EXCEPT ![arr[f.i]] = @ + 1]
               /\ destroyFired' = [destroyFired EXCEPT ![arr[f.i]] = @ + 1]
               /\ stack' = Append(SetTop(stack, [f EXCEPT !.aux = "ret",
                                                          !.c = arr[f.i]]),
                                  HookFrame("onDestroy", arr[f.i]))
               /\ UNCHANGED <<ent, comp, entitiesToRemove>>
          [] f.aux = "ret" ->
               \* component.entity = null
               /\ comp' = [comp EXCEPT ![f.c].entity = NULL]
               /\ stack' = SetTop(stack, [f EXCEPT !.aux = "loop", !.i = @ + 1])
               /\ UNCHANGED <<ent, entitiesToRemove, onDestroyCount,
                              destroyFired>>
          [] OTHER ->
               \* this.components = []; scene.removeEntity(this); active = false
               /\ ent' = [ent EXCEPT ![f.e].components = <<>>,
                                     ![f.e].active = FALSE]
               /\ entitiesToRemove' = IF ent[f.e].scene
                                        THEN Enqueued(entitiesToRemove, f.e)
                                        ELSE entitiesToRemove
               /\ stack' = Detach(Pop(stack), ComponentLoops, f.e,
                                  ent[f.e].components)
               /\ UNCHANGED <<comp, onDestroyCount, destroyFired>>
  /\ UNCHANGED <<entities, entitiesToAdd, taggedEntities, calls, startCount,
                 destroyLog, pass, flush>>

\* Entity.update: the loop over the components
StepEntityUpdate ==
  /\ Steps("entityUpdate")
  /\ LET f == Top
         arr == ArrOf(f)
     IN stack' = IF f.i <= Len(arr)
                   THEN Append(SetTop(stack,
                                 [f EXCEPT !.i = @ + 1,
                                           !.log = Append(@, arr[f.i])]),
                               HookFrame("update", arr[f.i]))
                   ELSE Pop(stack)
  /\ UNCHANGED <<entities, entitiesToAdd, entitiesToRemove, taggedEntities, ent,
                 comp, calls, startCount, onDestroyCount, destroyFired,
                 destroyLog, pass, flush>>

\* Entity._onAddedToScene: the loop over the components
StepOnAdded ==
  /\ Steps("onAdded")
  /\ LET f == Top
         arr == ArrOf(f)
     IN IF f.i <= Len(arr)
          THEN /\ startCount' = [startCount EXCEPT ![arr[f.i]] = @ + 1]
               /\ stack' = Append(SetTop(stack, [f EXCEPT !.i = @ + 1]),
                                  HookFrame("start", arr[f.i]))
          ELSE /\ stack' = Pop(stack)
               /\ UNCHANGED startCount
  /\ UNCHANGED <<entities, entitiesToAdd, entitiesToRemove, taggedEntities, ent,
                 comp, calls, onDestroyCount, destroyFired, destroyLog,
                 pass, flush>>

\* Scene.update: the loop over this.entities, then processPendingChanges()
StepSceneUpdate ==
  /\ Steps("sceneUpdate")
  /\ LET f == Top
         arr == ArrOf(f)
     IN IF f.i <= Len(arr)
          THEN LET e == arr[f.i]
                   next == SetTop(stack, [f EXCEPT !.i = @ + 1])
               IN /\ stack' = IF Eligible(e)
                                THEN Append(next, LoopFrame("entityUpdate", e))
                                ELSE next
                  /\ pass' = [pass EXCEPT
                                !.visited = Append(@, e),
                                !.updated = IF Eligible(e) THEN Append(@, e)
                                            ELSE @]
                  /\ UNCHANGED flush
          ELSE /\ stack' = SetTop(stack, LoopFrame("flushRemove", NULL))
               /\ flush' = FlushStart
               /\ pass' = NoPass
  /\ UNCHANGED <<entities, entitiesToAdd, entitiesToRemove, taggedEntities, ent,
                 comp, calls, startCount, onDestroyCount, destroyFired,
                 destroyLog>>

\* Admission of one entity, as addEntityImmediate and the flush do it.
Admitted(en, e) == [en EXCEPT ![e].scene = TRUE]

\* processPendingChanges: the loop over this.entitiesToRemove.  The entity in
\* hand is kept in the frame's c, its index in this.entities in idx.
StepFlushRemove ==
  /\ Steps("flushRemove")
  /\ LET f == Top
         arr == ArrOf(f)
     IN CASE f.aux = "loop" /\ f.i <= Len(arr) ->
               LET e == arr[f.i]
                   index == IndexOf(entities, e)
                   \* entity.scene = null (the scene is set aside) before destroy()
                   aside == [ent EXCEPT ![e].scene = FALSE]
               IN IF index = 0
                    THEN /\ stack' = SetTop(stack, [f EXCEPT !.i = @ + 1])
                         /\ UNCHANGED <<entities, entitiesToRemove, taggedEntities,
                                        ent, destroyLog>>
                    ELSE /\ taggedEntities' =
                              UnindexTags(taggedEntities, e, ent[e].tags)
                         /\ IF ~ent[e].destroyed
                              THEN /\ ent' = DestroyedFlag(aside, e)
                                   /\ destroyLog' = DestroyNoted(aside, e)
                                   /\ stack' = DestroyLoop(aside,
                                        SetTop(stack, [f EXCEPT !.aux = "ret",
                                                                !.c = e,
                                                                !.idx = index]), e)
                                   /\ UNCHANGED entities
                              ELSE /\ ent' = aside
                                   /\ entities' = Splice(entities, index)
                                   /\ stack' = SetTop(stack, [f EXCEPT !.i = @ + 1])
                                   /\ UNCHANGED destroyLog
                         /\ UNCHANGED entitiesToRemove
          [] f.aux = "ret" ->
               \* entity.scene = scene; entity.scene = null; splice(index, 1)
               /\ ent' = [ent EXCEPT ![f.c].scene = FALSE]
               /\ entities' = Splice(entities, f.idx)
               /\ stack' = SetTop(stack, [f EXCEPT !.aux = "loop", !.i = @ + 1])
               /\ UNCHANGED <<entitiesToRemove, taggedEntities, destroyLog>>
          [] OTHER ->
               \* this.entitiesToRemove = []; the additions follow
               /\ entitiesToRemove' = <<>>
               /\ stack' = SetTop(stack, LoopFrame("flushAdd", NULL))
               /\ UNCHANGED <<entities, taggedEntities, ent, destroyLog>>
  /\ UNCHANGED <<entitiesToAdd, comp, calls, startCount, onDestroyCount,
                 destroyFired, pass, flush>>

\* if (entity._destroyed) continue, with the mutant that never skips
SkippedNever(e) == FALSE

Skipped(e) == ent[e].destroyed

\* processPendingChanges: the loop over this.entitiesToAdd
StepFlushAdd ==
  /\ Steps("flushAdd")
  /\ LET f == Top
         arr == ArrOf(f)
     IN IF f.i <= Len(arr)
          THEN LET e == arr[f.i]
                   next == SetTop(stack, [f EXCEPT !.i = @ + 1, !.c = e])
               IN IF Skipped(e)
                    THEN /\ stack' = next
                         /\ UNCHANGED <<entities, entitiesToAdd, taggedEntities,
                                        ent>>
                    ELSE /\ ent' = Admitted(ent, e)
                         /\ entities' = Append(entities, e)
                         /\ taggedEntities' =
                              IndexTags(taggedEntities, e, ent[e].tags)
                         /\ stack' = Append(next, LoopFrame("onAdded", e))
                         /\ UNCHANGED entitiesToAdd
          ELSE /\ entitiesToAdd' = <<>>
               /\ stack' = SetTop(stack, Frame("flushEnd", NULL, NULL, 0, "ret", 0))
               /\ UNCHANGED <<entities, taggedEntities, ent>>
  /\ UNCHANGED <<entitiesToRemove, comp, calls, startCount, onDestroyCount,
                 destroyFired, destroyLog, pass, flush>>

\* processPendingChanges returns.
StepFlushEnd ==
  /\ Steps("flushEnd")
  /\ stack' = Pop(stack)
  /\ flush' = NoFlush
  /\ UNCHANGED <<entities, entitiesToAdd, entitiesToRemove, taggedEntities, ent,
                 comp, calls, startCount, onDestroyCount, destroyFired,
                 destroyLog, pass>>

EmptyIndex == [t \in {} |-> {}]

\* Scene.clear: the loop over this.entities and the lines after it
StepClear ==
  /\ Steps("clear")
  /\ LET f == Top
         arr == ArrOf(f)
     IN IF f.i <= Len(arr)
          THEN LET e == arr[f.i]
                   next == SetTop(stack, [f EXCEPT !.i = @ + 1])
                   \* entity.scene = null before entity.destroy()
                   aside == [ent EXCEPT ![e].scene = FALSE]
               IN /\ IF ~ent[e].destroyed
                       THEN /\ ent' = DestroyedFlag(aside, e)
                            /\ destroyLog' = DestroyNoted(aside, e)
                            /\ stack' = DestroyLoop(aside, next, e)
                       ELSE /\ stack' = next
                            /\ UNCHANGED <<ent, destroyLog>>
                  /\ UNCHANGED <<entities, entitiesToAdd, entitiesToRemove,
                                 taggedEntities>>
          ELSE /\ entities' = <<>>
               /\ entitiesToAdd' = <<>>
               /\ entitiesToRemove' = <<>>
               /\ taggedEntities' = EmptyIndex
               /\ stack' = Detach(Detach(Detach(Pop(stack),
                              {"sceneUpdate", "clear"}, NULL, entities),
                              {"flushAdd"}, NULL, entitiesToAdd),
                              {"flushRemove"}, NULL, entitiesToRemove)
               /\ UNCHANGED <<ent, destroyLog>>
  /\ UNCHANGED <<comp, calls, startCount, onDestroyCount, destroyFired, pass,
                 flush>>

\* ------------------------------------------------------------ specification
SceneNext ==
  \/ \E e \in Entities : AddEntity(e)
  \/ \E e \in Entities : AddEntityImmediate(e)
  \/ \E e \in Entities : RemoveEntity(e)
  \/ ProcessPendingChanges
  \/ SceneUpdate
  \/ Clear
  \/ \E e \in Entities, c \in Components : AddComponent(e, c)
  \/ \E e \in Entities, c \in Components : RemoveComponent(e, c)
  \/ \E e \in Entities, t \in Tags : AddTag(e, t)
  \/ \E e \in Entities, t \in Tags : RemoveTag(e, t)
  \/ \E e \in Entities : EntityUpdate(e)
  \/ \E e \in Entities : Destroy(e)
  \/ HookReturn
  \/ StepRemoveComponent
  \/ StepDestroy
  \/ StepEntityUpdate
  \/ StepOnAdded
  \/ StepSceneUpdate
  \/ StepFlushRemove
  \/ StepFlushAdd
  \/ StepFlushEnd
  \/ StepClear

\* The components of the entities and their updates: the enabled flag, the
\* component operations, Entity.update on its own and in a frame.
EntityNext ==
  \/ \E c \in Components, enabled \in BOOLEAN : SetEnabled(c, enabled)
  \/ \E e \in Entities, c \in Components : AddComponent(e, c)
  \/ \E e \in Entities, c \in Components : RemoveComponent(e, c)
  \/ \E e \in Entities : EntityUpdate(e)
  \/ \E e \in Entities : Destroy(e)
  \/ SceneUpdate
  \/ HookReturn
  \/ StepRemoveComponent
  \/ StepDestroy
  \/ StepEntityUpdate
  \/ StepSceneUpdate
  \/ StepFlushRemove
  \/ StepFlushAdd
  \/ StepFlushEnd

\* ------------------------------------------------------------ the agent
\* Lengths are in decimetres and dt in tenths of a second, so that the
\* source's metres and seconds (speed 6.0, killDistance 1.0, the 0.1 and 0.001
\* cut-offs, dt = 1.0 or 0.5) are integers.
speed == 6
killDistance == 1

\* Agent updates in one run.
MaxFrames == 4

DtTenths == {5, 10}
Forwards == {<<0, 0, 1>>, <<1, 0, 0>>, <<0, 0, -1>>, <<-1, 0, 0>>}
AgentStarts == {<<0, 0, 50>>, <<0, 0, -100>>, <<30, 0, 40>>, <<-60, 0, -80>>,
                <<5, 0, 0>>, <<0, 20, -100>>, <<0, 0, 0>>, <<0, 0, -65>>,
                <<0, 20, 0>>}
RefSets == {[entity |-> TRUE, player |-> TRUE, scene |-> TRUE, gameState |-> TRUE],
            [entity |-> TRUE, player |-> TRUE, scene |-> TRUE, gameState |-> FALSE],
            [entity |-> TRUE, player |-> TRUE, scene |-> FALSE, gameState |-> FALSE],
            [entity |-> TRUE, player |-> FALSE, scene |-> TRUE, gameState |-> TRUE],
            [entity |-> FALSE, player |-> TRUE, scene |-> TRUE, gameState |-> TRUE]}

\* Math.min and Math.max
Min(a, b) == IF a < b THEN a ELSE b
Max(a, b) == IF a > b THEN a ELSE b

\* Math.sqrt of a perfect square
Sqrt(n) == CHOOSE r \in 0..n : r * r <= n /\ (r + 1) * (r + 1) > n

Dot(a, b) == a[1] * b[1] + a[2] * b[2] + a[3] * b[3]
Minus(a, b) == <<a[1] - b[1], a[2] - b[2], a[3] - b[3]>>

\* Mutant: the view cone is a half space.
isInWideView(scpPos, pPos, fwd) ==
  LET d == Minus(scpPos, pPos)
  IN IF Dot(d, d) = 0 THEN TRUE ELSE Dot(fwd, d) > 0

\* SCP173Behavior.isInPlayerView: dist < 0.001 gives true; else the unit
\* vector to the agent dotted with the forward vector is compared with
\* cos(pi / 6).  dot / dist > cos(pi / 6) is dot > 0 and 4 dot^2 > 3 dist^2.
isInPlayerView(scpPos, pPos, fwd) ==
  LET d == Minus(scpPos, pPos)
      distSq == Dot(d, d)
      dot == Dot(fwd, d)
  IN IF distSq = 0 THEN TRUE
     ELSE dot > 0 /\ 4 * dot * dot > 3 * distSq

\* The square root and the two divisions of moveTowardsPlayer are exact.
ExactMove(scpPos, pPos, dt) ==
  LET dx == pPos[1] - scpPos[1]
      dz == pPos[3] - scpPos[3]
      h == dx * dx + dz * dz
      dist == Sqrt(h)
  IN IF h = 0 THEN TRUE
     ELSE /\ dist * dist = h
          /\ (dx * speed * dt) % dist = 0
          /\ (dz * speed * dt) % dist = 0

\* Mutant: the step stops at the player.
moveOntoPlayer(scpPos, pPos, dt) ==
  LET dx == pPos[1] - scpPos[1]
      dz == pPos[3] - scpPos[3]
      h == dx * dx + dz * dz
      dist == Sqrt(h)
  IN IF h < 1 THEN scpPos
     ELSE IF speed * dt >= dist THEN <<pPos[1], scpPos[2], pPos[3]>>
     ELSE <<scpPos[1] + (dx * speed * dt) \div dist,
            scpPos[2],
            scpPos[3] + (dz * speed * dt) \div dist>>

\* SCP173Behavior.moveTowardsPlayer: the position after it
moveTowardsPlayer(scpPos, pPos, dt) ==
  LET dx == pPos[1] - scpPos[1]
      dz == pPos[3] - scpPos[3]
      h == dx * dx + dz * dz
      dist == Sqrt(h)
  IN IF h < 1 THEN scpPos
     ELSE <<scpPos[1] + (dx * speed * dt) \div dist,
            scpPos[2],
            scpPos[3] + (dz * speed * dt) \div dist>>

\* Mutant: a distance of exactly killDistance touches.
isTouchingWithin(scpPos, pPos) ==
  LET d == Minus(pPos, scpPos)
  IN Dot(d, d) <= (killDistance * 10) * (killDistance * 10)

\* SCP173Behavior.isTouchingPlayer
isTouchingPlayer(scpPos, pPos) ==
  LET d == Minus(pPos, scpPos)
  IN Dot(d, d) < (killDistance * 10) * (killDistance * 10)

\* Mutant: the agent moves whether seen or not.
MovesAlways(isSeen) == TRUE

\* if (!isSeen) this.moveTowardsPlayer(dt)
Moves(isSeen) == ~isSeen

\* SCP173Behavior.update(dt), with killPlayer, in the frame that makes the
\* count of frames n
AgentFrame(dt, n) ==
  /\ ~threw
  /\ frames' = n
  /\ agentDt' = dt
  /\ IF ~refs.entity \/ ~refs.player
       THEN UNCHANGED <<agentPos, deadSignals, threw, frozenRun>>
       ELSE LET isSeen == isInPlayerView(agentPos, playerPos, playerFwd)
                pos == IF Moves(isSeen)
                         THEN moveTowardsPlayer(agentPos, playerPos, dt)
                         ELSE agentPos
            IN /\ Moves(isSeen) => ExactMove(agentPos, playerPos, dt)
               /\ agentPos' = pos
               /\ frozenRun' = IF isSeen THEN Min(frozenRun + 1, MaxFrames) ELSE 0
               /\ IF isTouchingPlayer(pos, playerPos)
                    THEN \* killPlayer: this.scene.gameState read, then setState
                         /\ threw' = ~refs.scene
                         /\ deadSignals' = IF refs.scene /\ refs.gameState
                                             THEN deadSignals + 1
                                             ELSE deadSignals
                    ELSE UNCHANGED <<deadSignals, threw>>
  /\ UNCHANGED <<playerPos, playerFwd, refs>>
  /\ UNCHANGED <<sceneVars, hostVars>>

\* One frame of a run of MaxFrames frames
AgentUpdate(dt) == frames < MaxFrames /\ AgentFrame(dt, frames + 1)

\* One frame of a game loop that goes on until the terminal signal is raised;
\* the count of frames stops at MaxFrames.
AgentTick(dt) ==
  /\ deadSignals = 0
  /\ AgentFrame(dt, Min(frames + 1, MaxFrames))

\* The player turns between two frames.
PlayerTurn(f) ==
  /\ f # playerFwd
  /\ playerFwd' = f
  /\ UNCHANGED <<agentPos, playerPos, refs, deadSignals, threw, frames,
                 frozenRun, agentDt>>
  /\ UNCHANGED <<sceneVars, hostVars>>

AgentInit ==
  /\ agentPos \in AgentStarts
  /\ playerPos = <<0, 0, 0>>
  /\ playerFwd \in Forwards
  /\ refs \in RefSets
  /\ deadSignals = 0
  /\ threw = FALSE
  /\ frames = 0
  /\ frozenRun = 0
  /\ agentDt = 0

\* The agent as the scene-only specification holds it: built, never updated.
AgentBuilt ==
  /\ agentPos = <<0, 0, 50>>
  /\ playerPos = <<0, 0, 0>>
  /\ playerFwd = <<0, 0, 1>>
  /\ refs = [entity |-> TRUE, player |-> TRUE, scene |-> TRUE, gameState |-> TRUE]
  /\ deadSignals = 0
  /\ threw = FALSE
  /\ frames = 0
  /\ frozenRun = 0
  /\ agentDt = 0

AgentNext ==
  \/ \E dt \in DtTenths : AgentUpdate(dt)
  \/ \E f \in Forwards : PlayerTurn(f)

\* The frames of the game loop, one after the other without end
Ticks == \E dt \in DtTenths : AgentTick(dt)

PursuitNext ==
  \/ Ticks
  \/ \E f \in Forwards : PlayerTurn(f)

\* ------------------------------------------------------------ Time
\* Timestamps and maxDeltaTime are in milliseconds, timeScale is in halves
\* (2 stands for 1.0), deltaTime and time are in half milliseconds (the
\* milliseconds times the timeScale in halves).  An fps value is the exact
\* fraction <<numerator, denominator>>.
MaxTicks == 3

\* Milliseconds between two callbacks of requestAnimationFrame.
Elapsed == {0, 16, 100, 1000}
\* Arguments of setTimeScale (-1, 0, 0.5, 1, 2) and of setMaxDeltaTime.
Scales == {-2, 0, 1, 2, 4}
MaxDeltas == {5, 100, 500}


\* new Time()
TimeBuilt ==
  /\ now = 0
  /\ tm = [deltaTime |-> 0, unscaledDeltaTime |-> 0, maxDeltaTime |-> 100,
           timeScale |-> 2, time |-> 0, unscaledTime |-> 0, frameCount |-> 0,
           lastTime |-> 0, started |-> FALSE, fpsFrameCount |-> 0,
           fpsAccumulator |-> 0, fps |-> <<0, 1>>, smoothedFps |-> <<0, 1>>]
  /\ timeRet = 0
  /\ timeSum = 0
  /\ timeUpdates = 0

\* Mutant: the raw delta is not clamped.
Unclamped(rawDt, maxDt) == rawDt

\* Math.min(rawDt, this.maxDeltaTime)
Clamped(rawDt, maxDt) == Min(rawDt, maxDt)

\* Time._updateFps on the fields t, which already hold the frame's delta
updateFps(t) ==
  LET count == t.fpsFrameCount + 1
      acc == t.fpsAccumulator + t.unscaledDeltaTime
      fps == <<count * 1000, acc>>
      old == t.smoothedFps
  IN IF acc >= 1000
       THEN [t EXCEPT !.fpsFrameCount = 0, !.fpsAccumulator = 0, !.fps = fps,
                      !.smoothedFps =
                        IF old[1] = 0 THEN fps
                        ELSE <<fps[1] * old[2] + 9 * old[1] * fps[2],
                               10 * fps[2] * old[2]>>]
       ELSE [t EXCEPT !.fpsFrameCount = count, !.fpsAccumulator = acc]

\* gameLoop(currentTime) up to time.update(currentTime): the callback comes d
\* milliseconds after the one before.
TimeUpdate(d) ==
  /\ timeUpdates < MaxTicks
  /\ timeUpdates' = timeUpdates + 1
  /\ now' = now + d
  /\ IF ~tm.started
       THEN /\ tm' = [tm EXCEPT !.lastTime = now + d, !.started = TRUE,
                                !.deltaTime = 0, !.unscaledDeltaTime = 0]
            /\ timeRet' = 0
            /\ timeSum' = timeSum
       ELSE LET rawDt == (now + d) - tm.lastTime
                unscaled == Clamped(rawDt, tm.maxDeltaTime)
                delta == unscaled * tm.timeScale
            IN /\ tm' = updateFps([tm EXCEPT
                          !.lastTime = now + d,
                          !.unscaledDeltaTime = unscaled,
                          !.deltaTime = delta,
                          !.time = @ + delta,
                          !.unscaledTime = @ + unscaled,
                          !.frameCount = @ + 1])
               /\ timeRet' = delta
               /\ timeSum' = timeSum + delta
  /\ UNCHANGED <<sceneVars, agentVars, inputVars, playerVars>>

\* Time.reset
TimeReset ==
  /\ tm' = [tm EXCEPT !.deltaTime = 0, !.unscaledDeltaTime = 0, !.time = 0,
                      !.unscaledTime = 0, !.frameCount = 0, !.started = FALSE,
                      !.fpsFrameCount = 0, !.fpsAccumulator = 0,
                      !.fps = <<0, 1>>, !.smoothedFps = <<0, 1>>]
  /\ timeSum' = 0
  /\ UNCHANGED <<now, timeRet, timeUpdates>>
  /\ UNCHANGED <<sceneVars, agentVars, inputVars, playerVars>>

\* Time.setTimeScale
SetTimeScale(scale) ==
  /\ tm' = [tm EXCEPT !.timeScale = Max(0, scale)]
  /\ UNCHANGED <<now, timeRet, timeSum, timeUpdates>>
  /\ UNCHANGED <<sceneVars, agentVars, inputVars, playerVars>>

\* Time.setMaxDeltaTime; 0.01 s is 10 ms
SetMaxDeltaTime(maxDt) ==
  /\ tm' = [tm EXCEPT !.maxDeltaTime = Max(10, maxDt)]
  /\ UNCHANGED <<now, timeRet, timeSum, timeUpdates>>
  /\ UNCHANGED <<sceneVars, agentVars, inputVars, playerVars>>

TimeNext ==
  \/ \E d \in Elapsed : TimeUpdate(d)
  \/ TimeReset
  \/ \E scale \in Scales : SetTimeScale(scale)
  \/ \E maxDt \in MaxDeltas : SetMaxDeltaTime(maxDt)

\* ------------------------------------------------------------ Input
\* The mouse delta is in units of the sensitivity (0.002 rad per pixel).
MaxInputEvents == 5

Keys == {"Space", "KeyW"}
\* movementX, movementY and clientX, clientY of a mousemove event
MouseMoves == {[dx |-> 3, dy |-> -2, x |-> 10, y |-> 20]}
Buttons == {0, 2}

\* new Input()
InputBuilt ==
  /\ inp = [keysDown |-> {}, keysPressed |-> {}, keysReleased |-> {},
            mouseDelta |-> <<0, 0>>, mousePosition |-> <<0, 0>>,
            isPointerLocked |-> FALSE,
            mouseLeftDown |-> FALSE, mouseRightDown |-> FALSE,
            mouseLeftPressed |-> FALSE, mouseRightPressed |-> FALSE]
  /\ held = {}
  /\ presses = [k \in Keys |-> 0]
  /\ seen = [k \in Keys |-> 0]
  /\ fresh = {}
  /\ repeats = [k \in Keys |-> 0]
  /\ inputEvents = 0
  /\ inputFrames = 0

\* Input.isKeyDown, isKeyPressed and the queries built on them, on fields i
isKeyDown(i, code) == code \in i.keysDown
isKeyPressed(i, code) == code \in i.keysPressed
isMoveForward(i) == isKeyDown(i, "KeyW") \/ isKeyDown(i, "ArrowUp")
isMoveBackward(i) == isKeyDown(i, "KeyS") \/ isKeyDown(i, "ArrowDown")
isMoveLeft(i) == isKeyDown(i, "KeyA") \/ isKeyDown(i, "ArrowLeft")
isMoveRight(i) == isKeyDown(i, "KeyD") \/ isKeyDown(i, "ArrowRight")
isSprinting(i) == isKeyDown(i, "ShiftLeft") \/ isKeyDown(i, "ShiftRight")
isJumpPressed(i) == isKeyPressed(i, "Space")

InputEvent ==
  /\ inputEvents < MaxInputEvents
  /\ inputEvents' = inputEvents + 1
  /\ UNCHANGED <<sceneVars, agentVars, timeVars, playerVars>>

\* Mutant: every keydown event, also an auto-repeat, is a press.
PressedAlways(down, pressed, code) == pressed \cup {code}

\* if (!this.keysDown.has(event.code)) this.keysPressed.add(event.code)
Pressed(down, pressed, code) ==
  IF code \notin down THEN pressed \cup {code} ELSE pressed

\* Input._onKeyDown: the first keydown of a physical press, or an auto-repeat
\* keydown while the key is held
OnKeyDown(code) ==
  /\ InputEvent
  /\ inp' = [inp EXCEPT !.keysPressed = Pressed(inp.keysDown, @, code),
                        !.keysDown = @ \cup {code}]
  /\ held' = held \cup {code}
  /\ presses' = IF code \in held THEN presses
                ELSE [presses EXCEPT ![code] = @ + 1]
  /\ fresh' = IF code \in held THEN fresh ELSE fresh \cup {code}
  /\ repeats' = IF code \in held THEN [repeats EXCEPT ![code] = @ + 1]
                ELSE repeats
  /\ UNCHANGED <<seen, inputFrames>>

\* Input._onKeyUp
OnKeyUp(code) ==
  /\ InputEvent
  /\ inp' = [inp EXCEPT !.keysDown = @ \ {code},
                        !.keysReleased = @ \cup {code}]
  /\ held' = held \ {code}
  /\ UNCHANGED <<presses, seen, fresh, repeats, inputFrames>>

\* Input._onMouseMove
OnMouseMove(m) ==
  /\ InputEvent
  /\ inp' = [inp EXCEPT
               !.mouseDelta = IF inp.isPointerLocked
                                THEN <<@[1] + m.dx, @[2] + m.dy>>
                                ELSE @,
               !.mousePosition = <<m.x, m.y>>]
  /\ UNCHANGED <<held, presses, seen, fresh, repeats, inputFrames>>

\* Input._onMouseDown
OnMouseDown(button) ==
  /\ InputEvent
  /\ inp' = CASE button = 0 ->
                   [inp EXCEPT !.mouseLeftPressed = @ \/ ~inp.mouseLeftDown,
                               !.mouseLeftDown = TRUE]
              [] button = 2 ->
                   [inp EXCEPT !.mouseRightPressed = @ \/ ~inp.mouseRightDown,
                               !.mouseRightDown = TRUE]
              [] OTHER -> inp
  /\ UNCHANGED <<held, presses, seen, fresh, repeats, inputFrames>>

\* Input._onMouseUp
OnMouseUp(button) ==
  /\ InputEvent
  /\ inp' = CASE button = 0 -> [inp EXCEPT !.mouseLeftDown = FALSE]
              [] button = 2 -> [inp EXCEPT !.mouseRightDown = FALSE]
              [] OTHER -> inp
  /\ UNCHANGED <<held, presses, seen, fresh, repeats, inputFrames>>

\* Input._onPointerLockChange; locked is document.pointerLockElement === element
OnPointerLockChange(locked) ==
  /\ InputEvent
  /\ inp' = [inp EXCEPT !.isPointerLocked = locked]
  /\ UNCHANGED <<held, presses, seen, fresh, repeats, inputFrames>>

\* Input.clearFrameState
clearFrameState(i) ==
  [i EXCEPT !.keysPressed = {}, !.keysReleased = {}, !.mouseDelta = <<0, 0>>,
            !.mouseLeftPressed = FALSE, !.mouseRightPressed = FALSE]

\* gameLoop: scene.update(dt), in which the consumers read the press edges,
\* then input.clearFrameState()
InputFrame ==
  /\ InputEvent
  /\ seen' = [k \in Keys |-> IF isKeyPressed(inp, k) THEN seen[k] + 1
                             ELSE seen[k]]
  /\ inp' = clearFrameState(inp)
  /\ fresh' = {}
  /\ inputFrames' = inputFrames + 1
  /\ UNCHANGED <<held, presses, repeats>>

InputNext ==
  \/ \E code \in Keys : OnKeyDown(code)
  \/ \E code \in Keys : OnKeyUp(code)
  \/ \E m \in MouseMoves : OnMouseMove(m)
  \/ \E button \in Buttons : OnMouseDown(button)
  \/ \E button \in Buttons : OnMouseUp(button)
  \/ \E locked \in BOOLEAN : OnPointerLockChange(locked)
  \/ InputFrame

\* ------------------------------------------------------------ PlayerController
\* Lengths are in units of 2.5 mm and dt in units of 0.05 s, so a velocity is
\* in units of 0.05 m/s: the source's metres and seconds (moveSpeed 4.0, sprint
\* 6.4, jumpForce 5.0, gravity 15.0, radius 0.3, height 1.8, the acceleration
\* 20 and deceleration 10 per second, dt = 0.05 or 0.1) are integers.  The yaw
\* is in quarter turns, the pitch in milliradians.  The rounding of the
\* Float32Array fields is left out.
moveSpeed == 80
sprintSpeed == 128
jumpForce == 100
gravity == 15
collisionRadius == 120
collisionHeight == 720
eyeHeight == 680
maxPitch == 1471
\* acceleration * dt and deceleration * dt for one unit of dt, in halves
acceleration == 2
deceleration == 1

\* PlayerController.update calls in one run.
MaxPlayerFrames == 2

PlayerDts == {1, 2}

\* The input as one frame finds it: fields of Input, with the mouse delta
\* given as <<quarter turns, milliradians>>.
Snap(down, pressed, mouse, locked) ==
  [keysDown |-> down, keysPressed |-> pressed, mouseDelta |-> mouse,
   isPointerLocked |-> locked]

PlayerInputs ==
  {Snap({}, {}, <<0, 0>>, TRUE),
   Snap({"KeyW"}, {}, <<0, 0>>, TRUE),
   Snap({"KeyW", "ShiftLeft"}, {}, <<0, 0>>, TRUE),
   Snap({"KeyS"}, {}, <<0, 0>>, TRUE),
   Snap({"KeyD"}, {}, <<0, 0>>, TRUE),
   Snap({"Space"}, {"Space"}, <<0, 0>>, TRUE),
   Snap({"Space"}, {}, <<0, 0>>, TRUE),
   Snap({"KeyW", "Space"}, {"Space"}, <<0, 0>>, TRUE),
   Snap({"ArrowLeft"}, {}, <<1, 2000>>, TRUE),
   Snap({"KeyW", "Space"}, {"Space"}, <<1, -2000>>, FALSE)}

\* Static colliders { position, halfSize }
Collider(pos, half) == [position |-> pos, halfSize |-> half]
\* the box of the level: a cube of 1 m centred at the origin
Box == Collider(<<0, 0, 0>>, <<200, 200, 200>>)
\* a beam of 2 m x 0.2 m x 2 m whose lower face is 1.5 m above the ground
Lintel == Collider(<<0, 640, 0>>, <<400, 40, 400>>)
\* a slab whose lower face is 2.25 m above the ground
Ceiling == Collider(<<0, 940, 0>>, <<2000, 40, 2000>>)
\* the back wall and the left wall of the level (10 m x 3 m x 0.3 m)
BackWall == Collider(<<0, 400, -2000>>, <<2000, 600, 60>>)
LeftWall == Collider(<<-2000, 400, 0>>, <<60, 600, 2000>>)

\* The controller some frames into play: where it stands or flies, how fast it
\* moves, and the colliders of its level.  The airborne start over the box is
\* the third frame of a forward jump (dt = 0.1) begun 0.5 m before the box's
\* +X face; the start on top of the box is where such a jump lands and walks
\* on towards the -X edge.
Start(cols, pos, vel, grounded, yaw) ==
  [staticColliders |-> cols, position |-> pos, velocity |-> vel,
   isGrounded |-> grounded, yaw |-> yaw]

PlayerStarts ==
  {Start(<<Box>>, <<320, 0, 0>>, <<0, 0, 0>>, TRUE, 3),
   Start(<<Box>>, <<40, 240, 0>>, <<-80, 10, 0>>, FALSE, 3),
   Start(<<Box>>, <<-200, 200, 0>>, <<-80, 0, 0>>, TRUE, 3),
   Start(<<Lintel>>, <<520, 0, 0>>, <<0, 0, 0>>, TRUE, 3),
   Start(<<Ceiling>>, <<0, 0, 0>>, <<0, 0, 0>>, TRUE, 0),
   Start(<<BackWall, LeftWall>>, <<-1820, 0, -1820>>, <<0, 0, 0>>, TRUE, 2),
   Start(<<>>, <<0, 40, 0>>, <<0, -80, 0>>, FALSE, 0)}

\* Arguments of setPosition
SetPositions == {<<520, 0, 0>>, <<0, 200, 600>>}

\* new PlayerController(input, renderer) attached to its entity in a live
\* scene: a start s, with start() run when it last stood on the ground.
\* (entity: the controller has its entity; scene: the entity has its scene;
\* wanted: the arguments of the last setPosition since the last update.)
PlayerAt(s) ==
  [entity |-> TRUE, scene |-> TRUE, wanted |-> <<>>, jumpEnabled |-> TRUE,
   position |-> s.position, velocity |-> s.velocity,
   isGrounded |-> s.isGrounded, groundLevel |-> 0,
   yaw |-> s.yaw, pitch |-> 0, rotation |-> <<0, s.yaw>>,
   staticColliders |-> s.staticColliders,
   camera |-> [position |-> <<0, 0, 0>>, yaw |-> 0, pitch |-> 0, syncs |-> 0]]

NoMove == [moved |-> FALSE]
\* an update with the input i that did not get to updateMovement
Idle(i, dt) == [moved |-> FALSE, input |-> i, dt |-> dt]

PlayerBuilt ==
  /\ pl = PlayerAt(Start(<<>>, <<0, 0, 0>>, <<0, 0, 0>>, TRUE, 0))
  /\ plLast = NoMove
  /\ plFrames = 0

PlayerInit ==
  /\ pl \in {PlayerAt(s) : s \in PlayerStarts}
  /\ plLast = NoMove
  /\ plFrames = 0

\* Math.sin and Math.cos of a yaw in quarter turns
Sin(q) == CASE q % 4 = 0 -> 0 [] q % 4 = 1 -> 1 [] q % 4 = 2 -> 0 [] OTHER -> -1
Cos(q) == Sin(q + 1)

getForwardVector(q) == <<Sin(q), 0, Cos(q)>>
getRightVector(q) == <<Cos(q), 0, -Sin(q)>>

\* PlayerController.updateCamera
updateCamera(p, i) ==
  LET yaw == p.yaw - i.mouseDelta[1]
      pitch == Max(-maxPitch, Min(maxPitch, p.pitch - i.mouseDelta[2]))
  IN [p EXCEPT !.yaw = yaw, !.pitch = pitch, !.rotation = <<pitch, yaw>>]

\* PlayerController.syncCameraToEntity: setCameraPosition and setCameraTarget
\* (the target is the position plus the unit vector of yaw and pitch)
syncCameraToEntity(p) ==
  [p EXCEPT !.camera =
     [position |-> <<p.position[1], p.position[2] + eyeHeight, p.position[3]>>,
      yaw |-> p.yaw, pitch |-> p.pitch, syncs |-> p.camera.syncs + 1]]

\* The overlap test of resolveCollisions: the player's box at the candidate
\* position cand against the collider col.
Overlapping(cand, col) ==
  /\ cand[1] + collisionRadius > col.position[1] - col.halfSize[1]
  /\ cand[1] - collisionRadius < col.position[1] + col.halfSize[1]
  /\ cand[2] + collisionHeight > col.position[2] - col.halfSize[2]
  /\ cand[2] < col.position[2] + col.halfSize[2]
  /\ cand[3] + collisionRadius > col.position[3] - col.halfSize[3]
  /\ cand[3] - collisionRadius < col.position[3] + col.halfSize[3]

\* Mutant: a position at the collider's centre is pushed to the min face.
PushSideOrCentre(cur, centre) == cur <= centre

\* currentPos[axis] < collider.position[axis]: push to the min face
PushSide(cur, centre) == cur < centre

\* One turn of the loop of resolveCollisions: collider col, the position cur
\* before the move, the candidate cand, and what the turns before left in
\* acc (result, velocity, isGrounded).
resolveOne(col, cur, cand, acc) ==
  LET colMinX == col.position[1] - col.halfSize[1]
      colMaxX == col.position[1] + col.halfSize[1]
      colMinY == col.position[2] - col.halfSize[2]
      colMaxY == col.position[2] + col.halfSize[2]
      colMinZ == col.position[3] - col.halfSize[3]
      colMaxZ == col.position[3] + col.halfSize[3]
      playerMinX == cand[1] - collisionRadius
      playerMaxX == cand[1] + collisionRadius
      playerMinY == cand[2]
      playerMaxY == cand[2] + collisionHeight
      playerMinZ == cand[3] - collisionRadius
      playerMaxZ == cand[3] + collisionRadius
      overlapX == Min(playerMaxX - colMinX, colMaxX - playerMinX)
      overlapY == Min(playerMaxY - colMinY, colMaxY - playerMinY)
      overlapZ == Min(playerMaxZ - colMinZ, colMaxZ - playerMinZ)
  IN IF ~Overlapping(cand, col) THEN acc
     ELSE IF overlapX <= overlapY /\ overlapX <= overlapZ
       THEN [acc EXCEPT
               !.result[1] = IF PushSide(cur[1], col.position[1])
                               THEN colMinX - collisionRadius
                               ELSE colMaxX + collisionRadius,
               !.velocity[1] = 0]
     ELSE IF overlapZ <= overlapY
       THEN [acc EXCEPT
               !.result[3] = IF PushSide(cur[3], col.position[3])
                               THEN colMinZ - collisionRadius
                               ELSE colMaxZ + collisionRadius,
               !.velocity[3] = 0]
     ELSE IF PushSide(cur[2], col.position[2])
       THEN [acc EXCEPT !.result[2] = colMinY - collisionHeight,
                        !.velocity[2] = 0]
       ELSE [acc EXCEPT !.result[2] = colMaxY,
                        !.velocity[2] = 0,
                        !.isGrounded = TRUE]

\* for (const collider of this.staticColliders), from the k-th on
RECURSIVE resolveFrom(_, _, _, _, _)
resolveFrom(k, cols, cur, cand, acc) ==
  IF k > Len(cols) THEN acc
  ELSE resolveFrom(k + 1, cols, cur, cand, resolveOne(cols[k], cur, cand, acc))

\* PlayerController.resolveCollisions(newX, newY, newZ) on the fields p: the
\* result with the velocity and the grounded flag it leaves
resolveCollisions(p, cand) ==
  resolveFrom(1, p.staticColliders, p.position, cand,
              [result |-> cand, velocity |-> p.velocity,
               isGrounded |-> p.isGrounded])

\* The desired direction of updateMovement, before it is normalised
MoveDir(p, i) ==
  LET f == getForwardVector(p.yaw)
      r == getRightVector(p.yaw)
      a == (IF isMoveForward(i) THEN 1 ELSE 0) - (IF isMoveBackward(i) THEN 1 ELSE 0)
      b == (IF isMoveRight(i) THEN 1 ELSE 0) - (IF isMoveLeft(i) THEN 1 ELSE 0)
  IN <<a * f[1] + b * r[1], a * f[3] + b * r[3]>>

\* Math.min(lerpFactor, 1), in halves
LerpFactor(hasInput, dt) ==
  Min((IF hasInput THEN acceleration ELSE deceleration) * dt, 2)

\* The square root and the blend of updateMovement are exact: the direction
\* is along one axis and the blended velocity is a whole number.
ExactMovement(p, i, dt) ==
  LET m == MoveDir(p, i)
      hasInput == m # <<0, 0>>
      targetSpeed == IF isSprinting(i) THEN sprintSpeed ELSE moveSpeed
      f == LerpFactor(hasInput, dt)
  IN /\ m[1] = 0 \/ m[2] = 0
     /\ ((m[1] * targetSpeed - p.velocity[1]) * f) % 2 = 0
     /\ ((m[2] * targetSpeed - p.velocity[3]) * f) % 2 = 0

\* Mutant: no ground clamp.
LandedNever(y, groundLevel) == FALSE

\* this.entity.position[1] <= this.groundLevel
Landed(y, groundLevel) == y <= groundLevel

\* Mutant: the jump is taken while the key is held, not on its press edge.
JumpHeld(p, i) == p.jumpEnabled /\ p.isGrounded /\ isKeyDown(i, "Space")

\* this.jumpEnabled && this.isGrounded && this.input.isJumpPressed()
JumpTaken(p, i) == p.jumpEnabled /\ p.isGrounded /\ isJumpPressed(i)

\* PlayerController.updateMovement(dt) on the fields p with the input i: the
\* fields after it (p) and what it computed on its way.
updateMovement(p, i, dt) ==
  LET m == MoveDir(p, i)
      hasInput == m # <<0, 0>>
      targetSpeed == IF isSprinting(i) THEN sprintSpeed ELSE moveSpeed
      f == LerpFactor(hasInput, dt)
      vx == p.velocity[1] + ((m[1] * targetSpeed - p.velocity[1]) * f) \div 2
      vz == p.velocity[3] + ((m[2] * targetSpeed - p.velocity[3]) * f) \div 2
      jumped == JumpTaken(p, i)
      vyJump == IF jumped THEN jumpForce ELSE p.velocity[2]
      airborne == IF jumped THEN TRUE ELSE ~p.isGrounded
      vy == IF airborne THEN vyJump - gravity * dt ELSE vyJump
      q == [p EXCEPT !.velocity = <<vx, vy, vz>>, !.isGrounded = ~airborne]
      cand == <<p.position[1] + vx * dt, p.position[2] + vy * dt,
                p.position[3] + vz * dt>>
      res == resolveCollisions(q, cand)
      landed == Landed(res.result[2], p.groundLevel)
      out == [q EXCEPT
                !.position = IF landed
                               THEN <<res.result[1], p.groundLevel, res.result[3]>>
                               ELSE res.result,
                !.velocity = IF landed
                               THEN <<res.velocity[1], 0, res.velocity[3]>>
                               ELSE res.velocity,
                !.isGrounded = landed \/ res.isGrounded]
  IN [p |-> out,
      trace |-> [moved |-> TRUE, dt |-> dt, input |-> i,
                 pre |-> p.position, velPre |-> p.velocity,
                 groundedPre |-> p.isGrounded,
                 jumped |-> jumped, velUsed |-> <<vx, vy, vz>>,
                 groundedUsed |-> ~airborne,
                 cand |-> cand, res |-> res]]

\* Mutant: camera and movement are processed whether the pointer is locked
\* or not.
LockedOrNot(i) == TRUE

\* if (this.input.isPointerLocked)
Locked(i) == i.isPointerLocked

\* PlayerController.update(dt) with the input as this frame finds it
PlayerUpdate(i, dt) ==
  /\ plFrames < MaxPlayerFrames
  /\ plFrames' = plFrames + 1
  /\ IF ~pl.entity
       THEN UNCHANGED <<pl, plLast>>
       ELSE IF Locked(i)
         THEN LET c == updateCamera(pl, i)
                  u == updateMovement(c, i, dt)
              IN /\ ExactMovement(c, i, dt)
                 /\ pl' = [syncCameraToEntity(u.p) EXCEPT !.wanted = <<>>]
                 /\ plLast' = u.trace
         ELSE /\ pl' = [syncCameraToEntity(pl) EXCEPT !.wanted = <<>>]
              /\ plLast' = Idle(i, dt)
  /\ UNCHANGED <<sceneVars, agentVars, timeVars, inputVars>>

\* PlayerController.setPosition
PlayerSetPosition(pos) ==
  /\ plFrames < MaxPlayerFrames
  /\ pl' = IF pl.entity
             THEN [pl EXCEPT !.position = pos, !.groundLevel = pos[2],
                             !.wanted = pos]
             ELSE [pl EXCEPT !.wanted = pos]
  /\ plLast' = NoMove
  /\ UNCHANGED plFrames
  /\ UNCHANGED <<sceneVars, agentVars, timeVars, inputVars>>

PlayerNext ==
  \/ \E i \in PlayerInputs, dt \in PlayerDts : PlayerUpdate(i, dt)
  \/ \E pos \in SetPositions : PlayerSetPosition(pos)

\* The set-up of the player in main: new Entity() and new
\* PlayerController(input, renderer), not yet attached, the entity not yet in
\* the scene.
PlayerUnattached ==
  /\ pl = [PlayerAt(Start(<<>>, <<0, 0, 0>>, <<0, 0, 0>>, TRUE, 0))
            EXCEPT !.entity = FALSE, !.scene = FALSE]
  /\ plLast = NoMove
  /\ plFrames = 0

\* Arguments of setPosition during set-up ((4, -0.5, 6) is main's) and values
\* main assigns to groundLevel
SetupPositions == {<<1600, -200, 2400>>, <<520, 0, 0>>, <<0, 200, 600>>,
                   <<0, 400, 0>>}
SetupLevels == {-200, 400}
\* Arguments of setYaw, in quarter turns
SetupYaws == {1, 2, 3}

\* PlayerController.start
start(p) == IF p.entity THEN [p EXCEPT !.groundLevel = p.position[2]] ELSE p

\* playerController.groundLevel = y
PlayerSetGroundLevel(y) ==
  /\ pl.groundLevel # y
  /\ pl' = [pl EXCEPT !.groundLevel = y]
  /\ UNCHANGED <<plLast, plFrames>>
  /\ UNCHANGED <<sceneVars, agentVars, timeVars, inputVars>>

\* PlayerController.setYaw
PlayerSetYaw(q) ==
  /\ pl.yaw # q
  /\ pl' = IF pl.entity
             THEN [pl EXCEPT !.yaw = q, !.rotation[2] = q]
             ELSE [pl EXCEPT !.yaw = q]
  /\ UNCHANGED <<plLast, plFrames>>
  /\ UNCHANGED <<sceneVars, agentVars, timeVars, inputVars>>

\* if (this.scene && component.start) component.start()
StartsOnAttach(inScene) == inScene

\* playerEntity.addComponent(playerController)
PlayerAttach ==
  /\ ~pl.entity
  /\ pl' = LET p == [pl EXCEPT !.entity = TRUE]
           IN IF StartsOnAttach(pl.scene) THEN start(p) ELSE p
  /\ UNCHANGED <<plLast, plFrames>>
  /\ UNCHANGED <<sceneVars, agentVars, timeVars, inputVars>>

\* scene.addEntityImmediate(playerEntity): entity.scene is set and start()
\* runs on the components the entity has
PlayerAdmit ==
  /\ ~pl.scene
  /\ pl' = LET p == [pl EXCEPT !.scene = TRUE]
           IN IF pl.entity THEN start(p) ELSE p
  /\ UNCHANGED <<plLast, plFrames>>
  /\ UNCHANGED <<sceneVars, agentVars, timeVars, inputVars>>

SetupNext ==
  \/ \E pos \in SetupPositions : PlayerSetPosition(pos)
  \/ \E y \in SetupLevels : PlayerSetGroundLevel(y)
  \/ \E q \in SetupYaws : PlayerSetYaw(q)
  \/ PlayerAttach
  \/ PlayerAdmit

vars == <<sceneVars, agentVars, hostVars>>

\* The Scene, its entities and components, driven by host code and hooks.
HostBuilt == TimeBuilt /\ InputBuilt /\ PlayerBuilt

Init == SceneInit /\ AgentBuilt /\ HostBuilt
Next == SceneNext
Spec == Init /\ [][Next]_vars

\* The observation-gated agent, updated frame by frame.
InitAgent == SceneInit /\ AgentInit /\ HostBuilt
NextAgent == AgentNext
SpecAgent == InitAgent /\ [][NextAgent]_vars

\* The components and their updates.
InitEntity == SceneInit /\ AgentBuilt /\ HostBuilt
NextEntity == EntityNext
SpecEntity == InitEntity /\ [][NextEntity]_vars

\* The frame clock, driven by the callbacks of requestAnimationFrame.
InitTime == SceneInit /\ AgentBuilt /\ HostBuilt
NextTime == TimeNext
SpecTime == InitTime /\ [][NextTime]_vars

\* The input sampler, driven by events and frames.
InitInput == SceneInit /\ AgentBuilt /\ HostBuilt
NextInput == InputNext
SpecInput == InitInput /\ [][NextInput]_vars

\* The player controller, updated frame by frame.
InitPlayer == SceneInit /\ AgentBuilt /\ TimeBuilt /\ InputBuilt /\ PlayerInit
NextPlayer == PlayerNext
SpecPlayer == InitPlayer /\ [][NextPlayer]_vars

\* The set-up of the player, its calls in any order.
InitSetup == SceneInit /\ AgentBuilt /\ TimeBuilt /\ InputBuilt /\ PlayerUnattached
NextSetup == SetupNext
SpecSetup == InitSetup /\ [][NextSetup]_vars

\* The agent with all its collaborators in a game loop that goes on: the
\* frame callback asks for the next frame every time it runs, so a frame that
\* can come does come.
InitPursuit ==
  /\ SceneInit /\ AgentInit /\ HostBuilt
  /\ refs = [entity |-> TRUE, player |-> TRUE, scene |-> TRUE, gameState |-> TRUE]
NextPursuit == PursuitNext
SpecPursuit == InitPursuit /\ [][NextPursuit]_vars /\ WF_vars(Ticks)

\* ------------------------------------------------------------ properties
\* The loop of Scene.update has visited everything; the flush has not begun.
PassLoopDone == Running("sceneUpdate") /\ Top.i > Len(ArrOf(Top))

DestroyRunning(e) ==
  \E k \in DOMAIN stack : stack[k].kind = "destroy" /\ stack[k].e = e

\* The calls of an update hook that leave the live array to the flush.
DeferredOps == {"addEntity", "removeEntity", "destroy", "addComponent",
                "removeComponent", "addTag", "removeTag"}

\* C1: removeEntity(e) called from update hooks during a Scene.update pass
\* leaves the entities that receive update in that pass as they were at its
\* start, and until the flush begins the live array, the tag index and every
\* scene back-reference stay as they are.
C1_RemovalDeferred ==
  /\ [](PassLoopDone /\ pass.ops \subseteq {"removeEntity"}
          => pass.updated = pass.eligible)
  /\ [][(pass.on /\ pass'.on /\ pass'.ops \subseteq {"removeEntity"})
          => /\ entities' = entities
             /\ taggedEntities' = taggedEntities
             /\ \A e \in Entities : ent'[e].scene = ent[e].scene]_vars

C1_Witness ==
  /\ PassLoopDone
  /\ pass.ops = {"removeEntity"}
  /\ \E e \in Range(entitiesToRemove) :
       /\ Includes(entities, e) /\ Includes(pass.updated, e)
       /\ ent[e].scene /\ e \in findByTag("door")

C3_RemovalWins ==
  Running("flushEnd") => \A e \in flush.both : ~Includes(entities, e)

\* C4: start() fires at most once for every component (and so exactly once
\* when it fires at attachment or at admission).
C4_StartOnce == \A c \in Components : startCount[c] <= 1

C6_DestroyedIsDetached ==
  \A e \in Entities :
    (ent[e].destroyed /\ ~DestroyRunning(e))
      => /\ ent[e].components = <<>>
         /\ \A c \in Components : comp[c].entity # e

\* C7: between operations, an entity of scene.entities has a tag iff
\* findByTag of that tag returns it.
C7_TagIndexConsistent ==
  stack = <<>> =>
    \A e \in Range(entities), t \in Tags :
      (t \in ent[e].tags) <=> (e \in findByTag(t))

\* C8: when processPendingChanges returns, every entity that was live and
\* queued for removal is out of scene.entities and of the tag index, is
\* destroyed and has no scene.
C8_RemovedIsGone ==
  Running("flushEnd") =>
    \A e \in flush.liveRemoved :
      /\ ~Includes(entities, e)
      /\ \A t \in Tags : e \notin findByTag(t)
      /\ ent[e].destroyed
      /\ ~ent[e].scene

\* C9: when processPendingChanges returns, an entity that was queued for
\* addition and was already destroyed (and was not live and had no scene) is
\* not in scene.entities, has no scene, is in no tag set, and no start hook
\* has fired for its components.
C9_DestroyedIsDropped ==
  Running("flushEnd") =>
    \A e \in flush.dropped :
      /\ ~Includes(entities, e)
      /\ ~ent[e].scene
      /\ \A t \in Tags : e \notin findByTag(t)
      /\ \A c \in Components :
           comp[c].entity = e => startCount[c] = flush.starts[c]

C9_Witness ==
  /\ Running("flushEnd")
  /\ \E e \in flush.dropped : ent[e].tags # {}

\* C10: the agent's position changes only in an update, and only in an update
\* in which isInPlayerView() is false; an observed update leaves it unchanged.
C10_FrozenWhileObserved ==
  [][agentPos' # agentPos
       => /\ frames' = frames + 1
          /\ ~isInPlayerView(agentPos, playerPos, playerFwd)]_vars

C10_Witness == frozenRun >= 3 /\ agentPos = <<0, 0, 50>> /\ frames >= 3

\* The agent's collaborators are all there.
AllRefs == refs.entity /\ refs.player /\ refs.scene /\ refs.gameState

DistSq(a, b) == Dot(Minus(a, b), Minus(a, b))

\* C11: with all its collaborators there, an update of the agent raises the
\* terminal signal exactly once if, after the update's movement step, the
\* squared distance between agent and player is below killDistance squared,
\* and not at all otherwise; nothing but an update raises it.
C11_KillOnContact ==
  [][/\ (frames' = frames + 1 /\ AllRefs)
          => IF DistSq(agentPos', playerPos)
                  < (killDistance * 10) * (killDistance * 10)
               THEN deadSignals' = deadSignals + 1
               ELSE deadSignals' = deadSignals
     /\ frames' = frames => deadSignals' = deadSignals]_vars

C11_Witness ==
  /\ AllRefs /\ deadSignals >= 1 /\ frozenRun = 0
  /\ agentPos = <<0, 0, -5>> /\ frames >= 1

\* The one collider of the level and the player's box at the position the
\* last movement update left.
OneCollider == plLast.moved /\ Len(pl.staticColliders) = 1

\* C12: with one static collider registered, the position a movement update
\* leaves on the entity gives a player box that does not overlap the
\* collider's box on all three axes.
C12_Contained ==
  OneCollider => ~Overlapping(pl.position, pl.staticColliders[1])

C14_AbsentRefIsSkipped == ~threw

\* C16: a press edge lasts one frame.  isKeyPressed(code) is true exactly for
\* the keys physically pressed since the last clearFrameState (an auto-repeat
\* keydown is no press), the held set is the set of keys physically held, a
\* frame counts a key as pressed iff it was pressed since the frame before,
\* clears the press edges and leaves the held set as it is; so the frames
\* that see a key pressed are no more than its physical presses.
C16_PressEdgeSingleFrame ==
  /\ [](/\ inp.keysPressed = fresh
        /\ inp.keysDown = held
        /\ \A k \in Keys : seen[k] <= presses[k])
  /\ [][inputFrames' = inputFrames + 1
          => /\ inp'.keysDown = inp.keysDown
             /\ inp'.keysPressed = {}
             /\ \A k \in Keys :
                  seen'[k] = IF k \in fresh THEN seen[k] + 1 ELSE seen[k]]_vars

C16_Witness ==
  /\ presses["Space"] = 1 /\ repeats["Space"] >= 1 /\ seen["Space"] = 1
  /\ "Space" \in held /\ inputFrames >= 2
  /\ inp.keysPressed = {}

LeastAxis(cand, col) ==
  LET lo(a) == col.position[a] - col.halfSize[a]
      hi(a) == col.position[a] + col.halfSize[a]
      ox == Min(cand[1] + collisionRadius - lo(1), hi(1) - (cand[1] - collisionRadius))
      oy == Min(cand[2] + collisionHeight - lo(2), hi(2) - cand[2])
      oz == Min(cand[3] + collisionRadius - lo(3), hi(3) - (cand[3] - collisionRadius))
  IN IF ox <= oy /\ ox <= oz THEN 1 ELSE IF oz <= oy THEN 3 ELSE 2

\* The face of col the player is put at on axis a, coming from pre.
Face(pre, col, a) ==
  IF pre[a] >= col.position[a]
    THEN col.position[a] + col.halfSize[a]
           + (IF a = 2 THEN 0 ELSE collisionRadius)
    ELSE col.position[a] - col.halfSize[a]
           - (IF a = 2 THEN collisionHeight ELSE collisionRadius)

\* C19: for the one collider of the level, when it overlaps the candidate
\* box, resolveCollisions moves only the coordinate of the axis of least
\* overlap (ties: X before Z before Y) to the collider's face on the side of
\* the position before the move, zeroes only that axis's velocity, and sets
\* grounded only for the upward push on Y.
C19_LeastOverlapAxis ==
  (OneCollider /\ Overlapping(plLast.cand, pl.staticColliders[1]))
    => LET col == pl.staticColliders[1]
           a == LeastAxis(plLast.cand, col)
       IN /\ plLast.res.result =
               [plLast.cand EXCEPT ![a] = Face(plLast.pre, col, a)]
          /\ plLast.res.velocity = [plLast.velUsed EXCEPT ![a] = 0]
          /\ plLast.res.isGrounded =
               (plLast.groundedUsed
                  \/ (a = 2 /\ plLast.pre[2] >= col.position[2]))

C19_Witness ==
  /\ OneCollider /\ pl.staticColliders = <<Box>>
  /\ Overlapping(plLast.cand, Box)
  /\ LeastAxis(plLast.cand, Box) = 2
  /\ plLast.pre[2] = 0
  /\ ~plLast.groundedUsed /\ plLast.res.isGrounded
  /\ pl.position[2] = 200

\* C20 as claimed: in the frame of a jump the velocity used for the
\* integration is jumpForce (no gravity in that frame).
C20_NoGravityOnJump ==
  (plLast.moved /\ plLast.jumped)
    => plLast.velUsed[2] = jumpForce /\ ~plLast.groundedUsed

\* C20 amended: the jump is taken iff the player is grounded and Space was
\* freshly pressed; it clears grounded, and gravity is subtracted in the same
\* frame (the velocity used is jumpForce - gravity * dt); without a jump,
\* gravity is subtracted iff the player is airborne.
C20_GravityAlsoOnJump ==
  plLast.moved
    => /\ plLast.jumped <=>
            (plLast.groundedPre /\ "Space" \in plLast.input.keysPressed)
       /\ plLast.jumped
            => /\ plLast.velUsed[2] = jumpForce - gravity * plLast.dt
               /\ ~plLast.groundedUsed
       /\ (~plLast.jumped /\ plLast.groundedPre)
            => /\ plLast.velUsed[2] = plLast.velPre[2]
               /\ plLast.groundedUsed
       /\ (~plLast.jumped /\ ~plLast.groundedPre)
            => /\ plLast.velUsed[2] = plLast.velPre[2] - gravity * plLast.dt
               /\ ~plLast.groundedUsed

C20_Witness ==
  /\ plLast.moved /\ plLast.jumped
  /\ plLast.velUsed[2] = jumpForce - gravity * 2
  /\ ~pl.isGrounded /\ pl.position[2] = 140

\* This step calls update(dt) on component c.
UpdateCalled(c) ==
  /\ Len(stack') = Len(stack) + 1
  /\ stack'[Len(stack')].kind = "hook"
  /\ stack'[Len(stack')].aux = "update"
  /\ stack'[Len(stack')].c = c

\* C15: update(dt) is called on a component only while its entity is active
\* and the component's enabled flag is true.
C15_UpdateOnlyWhenEnabled ==
  [][\A c \in Components :
       UpdateCalled(c) => comp[c].enabled /\ ent[Top.e].active]_vars

\* The loop of Entity.update has come to its end.
EntityLoopDone == Running("entityUpdate") /\ Top.i > Len(ArrOf(Top))

\* C18: when the loop of Entity.update ends, every component attached to the
\* entity has had update(dt) exactly once in this call, in attachment order,
\* and no component has had it twice.
C18_EveryComponentOnce ==
  EntityLoopDone =>
    LET attached(c) == Includes(ent[Top.e].components, c)
    IN /\ SelectSeq(Top.log, attached) = ent[Top.e].components
       /\ \A j, k \in 1..Len(Top.log) : Top.log[j] = Top.log[k] => j = k

\* An update of the agent that found it unobserved and made its movement step.
Unobserved ==
  /\ frames' = frames + 1
  /\ refs.entity /\ refs.player
  /\ ~isInPlayerView(agentPos, playerPos, playerFwd)

\* Squared horizontal distance, as moveTowardsPlayer takes it (dy = 0).
HorizSq(a, b) == (b[1] - a[1]) * (b[1] - a[1]) + (b[3] - a[3]) * (b[3] - a[3])

\* The step from a to b is horizontal, points from a at the target and is
\* len long.
StraightStep(a, b, target, len) ==
  LET d == Minus(b, a)
      t == Minus(target, a)
  IN /\ d[2] = 0
     /\ d[1] * t[3] - d[3] * t[1] = 0
     /\ d[1] * t[1] + d[3] * t[3] > 0
     /\ d[1] * d[1] + d[3] * d[3] = len * len

\* C21 as stated: every unobserved update moves the agent by exactly
\* speed * dt along the horizontal line to the player, y unchanged.
C21_StepsTowardPlayer ==
  [][Unobserved
       => StraightStep(agentPos, agentPos', playerPos, speed * agentDt')]_vars

\* C21 as the code has it: an unobserved update moves the agent by exactly
\* speed * dt along the horizontal line to the player, y unchanged, when the
\* horizontal distance to the player is at least 0.1 m; below that the
\* update leaves the position as it is.
C21_StepsUnlessAtPlayer ==
  [][Unobserved
       => IF HorizSq(agentPos, playerPos) >= 1
            THEN StraightStep(agentPos, agentPos', playerPos, speed * agentDt')
            ELSE agentPos' = agentPos]_vars

\* from (0,0,-10) with dt = 1.0 to (0,0,-4), behind the player's back
C21_Witness ==
  /\ frames = 1 /\ agentDt = 10 /\ frozenRun = 0
  /\ agentPos = <<0, 0, -40>> /\ playerFwd = <<0, 0, 1>>

\* dot / dist > cos(pi / 6) for the vector d from the player to the agent and
\* the forward vector fwd, in exact arithmetic.  At dist = 0 the quotient is
\* no number (NaN in the program's arithmetic) and nothing is greater.
InCone(d, fwd) ==
  /\ Dot(d, d) > 0
  /\ Dot(fwd, d) > 0
  /\ 4 * Dot(fwd, d) * Dot(fwd, d) > 3 * Dot(d, d)

\* An update that got as far as isInPlayerView().
ViewTaken == frames' = frames + 1 /\ refs.entity /\ refs.player

\* C22 as stated: the update finds the agent observed exactly when the unit
\* vector from the player to the agent, dotted with the forward vector, is
\* greater than cos(30 degrees).
C22_ObservedIffInCone ==
  [][ViewTaken
       => (frozenRun' > 0 <=> InCone(Minus(agentPos, playerPos), playerFwd))]_vars

\* C22 as the code has it: the update finds the agent observed exactly when
\* the agent is closer than 0.001 m to the player or the unit vector from the
\* player to the agent, dotted with the forward vector, is greater than
\* cos(30 degrees); straight ahead is observed, straight behind is not; the
\* answer depends on the three inputs only, and an observed update leaves
\* them as they are.
C22_ObservedIffInConeOrAtPlayer ==
  /\ [](\A k \in 1..100 :
          /\ isInPlayerView(<<k * playerFwd[1], 0, k * playerFwd[3]>>,
                            <<0, 0, 0>>, playerFwd)
          /\ ~isInPlayerView(<<-k * playerFwd[1], 0, -k * playerFwd[3]>>,
                             <<0, 0, 0>>, playerFwd))
  /\ [][ViewTaken
         => /\ frozenRun' > 0
                 <=> \/ DistSq(agentPos, playerPos) = 0
                     \/ InCone(Minus(agentPos, playerPos), playerFwd)
            /\ frozenRun' > 0
                 => /\ agentPos' = agentPos
                    /\ playerPos' = playerPos
                    /\ playerFwd' = playerFwd]_vars

\* behind the player and unobserved, then, the player having turned round,
\* ahead and observed
C22_Witness ==
  /\ frames = 2 /\ frozenRun = 1
  /\ agentPos = <<0, 0, -40>> /\ playerFwd = <<0, 0, -1>>

\* An update of the controller in a frame whose input has the pointer
\* unlocked.
UnlockedUpdate ==
  /\ plFrames' = plFrames + 1
  /\ pl.entity
  /\ plLast' # NoMove
  /\ ~plLast'.input.isPointerLocked

\* C23: an update with the pointer unlocked leaves position, velocity, yaw,
\* pitch and the grounded flag as they were, whatever keys and mouse say, and
\* makes one setCameraPosition call, with the entity position raised by the
\* eye height, and one setCameraTarget call, with the yaw and pitch.
C23_UnlockedOnlySyncsCamera ==
  [][UnlockedUpdate
       => /\ pl'.position = pl.position
          /\ pl'.velocity = pl.velocity
          /\ pl'.yaw = pl.yaw /\ pl'.pitch = pl.pitch
          /\ pl'.rotation = pl.rotation
          /\ pl'.isGrounded = pl.isGrounded
          /\ pl'.camera.syncs = pl.camera.syncs + 1
          /\ pl'.camera.position =
               <<pl.position[1], pl.position[2] + eyeHeight, pl.position[3]>>
          /\ pl'.camera.yaw = pl.yaw /\ pl'.camera.pitch = pl.pitch]_vars

\* W and Space pressed, the mouse moved, the pointer unlocked, on the way
\* down in mid air: nothing but the camera changed
C23_Witness ==
  /\ plFrames = 1 /\ plLast # NoMove /\ ~plLast.moved
  /\ "Space" \in plLast.input.keysPressed /\ plLast.input.mouseDelta # <<0, 0>>
  /\ pl.position = <<0, 40, 0>> /\ pl.velocity = <<0, -80, 0>>
  /\ ~pl.isGrounded
  /\ pl.camera.syncs = 1 /\ pl.camera.position = <<0, 720, 0>>

\* Entity.destroy has called onDestroy on component c and detached it, and
\* nothing has attached it again.
DestroyedWithEntity(c) == destroyFired[c] > 0 /\ comp[c].entity = NULL

\* C24: no component gets update(dt) after Entity.destroy has called its
\* onDestroy; when an update hook destroys its own entity, the components
\* after it in the entity's list are not updated by the running loop.
C24_NoUpdateAfterDestroy ==
  [][\A c \in Components : UpdateCalled(c) => ~DestroyedWithEntity(c)]_vars

\* C25: between operations scene.entities holds no entity twice, and every
\* entity in it has the Scene as its scene.
C25_LiveOnceWithScene ==
  stack = <<>> =>
    /\ \A j, k \in 1..Len(entities) : entities[j] = entities[k] => j = k
    /\ \A e \in Range(entities) : ent[e].scene

\* C26: between operations every entity that findByTag returns for some tag
\* is in scene.entities.
C26_IndexedIsLive ==
  stack = <<>> => \A t \in Tags : findByTag(t) \subseteq Range(entities)

\* The player at position pos stands on the ground or on the top face of a
\* collider whose X/Z extent overlaps the player's.
Supported(pos, groundLevel, cols) ==
  \/ pos[2] = groundLevel
  \/ \E k \in 1..Len(cols) :
       /\ pos[2] = cols[k].position[2] + cols[k].halfSize[2]
       /\ pos[1] + collisionRadius > cols[k].position[1] - cols[k].halfSize[1]
       /\ pos[1] - collisionRadius < cols[k].position[1] + cols[k].halfSize[1]
       /\ pos[3] + collisionRadius > cols[k].position[3] - cols[k].halfSize[3]
       /\ pos[3] - collisionRadius < cols[k].position[3] + cols[k].halfSize[3]

\* C27: when an update leaves the grounded flag true, the player stands on
\* the ground or on top of a collider.
C27_GroundedIsSupported ==
  (plFrames >= 1 /\ pl.isGrounded)
    => Supported(pl.position, pl.groundLevel, pl.staticColliders)

\* C28: an unobserved update does not increase the agent's horizontal
\* distance to the player.
C28_NeverOvershoots ==
  [][Unobserved
       => HorizSq(agentPos', playerPos) <= HorizSq(agentPos, playerPos)]_vars

\* C29: with the player at a fixed position and frames that keep coming, an
\* agent that no update finds observed raises the terminal signal in the
\* end, wherever it starts.
C29_PursuitEnds == [](frozenRun = 0) => <>(deadSignals > 0)

\* The controller is attached and its entity is in the scene.
PlayerLive == pl.entity /\ pl.scene

\* C30: once the player's entity is live, it is where the last setPosition
\* asked for, and groundLevel is that position's y, whether setPosition came
\* before or after addComponent and addEntityImmediate.
C30_SetPositionTakesEffect ==
  (PlayerLive /\ pl.wanted # <<>>)
    => pl.position = pl.wanted /\ pl.groundLevel = pl.wanted[2]
====
